---- MODULE Spec2Model ----
(***************************************************************************)
(* Model of package errors (src/errors.go).                                *)
(*                                                                         *)
(* An error value is the chain of its nodes, outermost first: the head is  *)
(* the value itself and the tail is what its Unwrap method returns.  The   *)
(* nil error is the empty chain.  Nodes held by pointer (errorString,      *)
(* fmt.wrapError) and the stack of a withStack carry the number of their   *)
(* allocation, so that equality of chains is Go's == on the error values.  *)
(***************************************************************************)
EXTENDS Integers, Sequences, FiniteSets, TLC

VARIABLES err, prev, orig, born, hist, caps, nalloc, nops, walk

vars == <<err, prev, orig, born, hist, caps, nalloc, nops, walk>>

\* Number of package calls applied in one behaviour.
MaxOps == 3

Nil == <<>>

\* Messages handed to New, Wrap and WithMessage.
Messages == {"disk full", "read config", "startup failed"}

\* Texts of the caller's own errors.
LeafTexts == {"EOF"}

\* Application call stacks active at a call into the package, innermost
\* frame first.
CallStacks == {<<"main.main">>, <<"cfg.Load", "main.main">>}

\* Operands of the fmt verbs.
S(s) == [t |-> "str", v |-> s]
E(e) == [t |-> "err", v |-> e]

\* Format calls handed to Wrapf, WithMessagef and Errorf: a format string cut
\* into its literal pieces and verbs, and the operands.
FmtCalls ==
    { [format |-> <<"open failed">>, a |-> <<>>],
      [format |-> <<"retry ", "%s">>, a |-> <<S("7")>>],
      [format |-> <<"retry ", "%s">>, a |-> <<>>] }

\* Errorf may also wrap the error at hand with %w.
ErrorfCalls(e) ==
    FmtCalls \cup
    (IF e = Nil THEN {} ELSE {[format |-> <<"ctx: ", "%w">>, a |-> <<E(e)>>]})

(***************************************************************************)
(* Nodes                                                                   *)
(***************************************************************************)
Node(k, i, m, st) == [kind |-> k, id |-> i, msg |-> m, stack |-> st]

\* errors.New(message), or a caller's own error: a pointer to its text.
errorString(i, m) == Node("leaf", i, m, <<>>)

\* *fmt.wrapError{msg, err}
wrapError(i, m) == Node("wrapError", i, m, <<>>)

\* type withStack struct { error; *stack }
withStack(i, st) == Node("withStack", i, "", st)

\* type formatted struct { error }
formatted == Node("formatted", 0, "", <<>>)

\* The methods of each node type.  withStack promotes Error from its error
\* and Format and StackTrace from its *stack; formatted embeds the interface
\* error, so only Error is promoted.
MethodSet(kind) ==
    CASE kind = "leaf" -> {"Error"}
      [] kind = "wrapError" -> {"Error", "Unwrap"}
      [] kind = "withStack" -> {"Error", "Cause", "Unwrap", "Format", "StackTrace"}
      [] kind = "formatted" -> {"Error", "Cause", "Unwrap", "Format"}

\* The capability interfaces the package asserts.
stackTracer == {"Error", "StackTrace"}
stackFormatter == {"Format", "StackTrace"}

\* v.(iface) on the value itself, no unwrapping.
Implements(e, iface) == e # Nil /\ iface \subseteq MethodSet(Head(e).kind)

\* Unwrap(err): err.Unwrap() when err has the method, nil otherwise.
Unwrap(e) ==
    IF e # Nil /\ "Unwrap" \in MethodSet(Head(e).kind) THEN Tail(e) ELSE Nil

\* As(err, &target): the first value of err's chain that implements target.
RECURSIVE As(_, _)
As(e, iface) ==
    IF e = Nil THEN [ok |-> FALSE, val |-> Nil]
    ELSE IF Implements(e, iface) THEN [ok |-> TRUE, val |-> e]
    ELSE As(Unwrap(e), iface)

\* callers(skip): the active call stack without its innermost skip frames.
callers(skip, stk) == SubSeq(stk, skip + 1, Len(stk))

\* err.Error()
RECURSIVE ErrorText(_)
ErrorText(e) ==
    IF e = Nil THEN ""
    ELSE CASE Head(e).kind \in {"leaf", "wrapError"} -> Head(e).msg
           [] Head(e).kind \in {"withStack", "formatted"} -> ErrorText(Tail(e))

(***************************************************************************)
(* Formatting.  What is written to the fmt.State is the sequence of the    *)
(* writes: the text of an error, a quoted text, or one frame of a trace.   *)
(***************************************************************************)
Text(s) == [k |-> "text", s |-> s]
Quoted(s) == [k |-> "quoted", s |-> s]
FrameLine(f) == [k |-> "frame", s |-> f]

\* The Format method of stack: with %+v every frame on a line of its own, nothing for
\* the other verbs.
StackFormat(st, verb, plus) ==
    IF verb = "v" /\ plus THEN [i \in 1..Len(st) |-> FrameLine(st[i])] ELSE <<>>

RECURSIVE Format(_, _, _), NodeFormat(_, _, _)

\* Format as it would be if it asked f.error itself for the stack, without
\* walking the chain.
FormatNoWalk(f, verb, plus) ==
    CASE verb = "v" /\ plus ->
            <<Text(ErrorText(Tail(f)))>> \o
            (IF Implements(Tail(f), stackFormatter)
             THEN NodeFormat(Tail(f), verb, plus) ELSE <<>>)
      [] verb \in {"v", "s"} /\ ~(verb = "v" /\ plus) -> <<Text(ErrorText(Tail(f)))>>
      [] verb = "q" -> <<Quoted(ErrorText(Tail(f)))>>
      [] OTHER -> <<>>

\* func (f formatted) Format(s fmt.State, verb rune); f.error is Tail(f).
Format(f, verb, plus) ==
    CASE verb = "v" /\ plus ->
            LET st == As(Tail(f), stackFormatter)
            IN  <<Text(ErrorText(Tail(f)))>> \o
                (IF st.ok THEN NodeFormat(st.val, verb, plus) ELSE <<>>)
      [] verb \in {"v", "s"} /\ ~(verb = "v" /\ plus) -> <<Text(ErrorText(Tail(f)))>>
      [] verb = "q" -> <<Quoted(ErrorText(Tail(f)))>>
      [] OTHER -> <<>>

\* v.Format(s, verb) on a value that is a fmt.Formatter.
NodeFormat(e, verb, plus) ==
    CASE Head(e).kind = "formatted" -> Format(e, verb, plus)
      [] Head(e).kind = "withStack" -> StackFormat(Head(e).stack, verb, plus)

\* The characters a sequence of writes puts out.
RECURSIVE Written(_)
Written(out) ==
    IF out = <<>> THEN ""
    ELSE CASE Head(out).k = "text" -> Head(out).s \o Written(Tail(out))
           [] Head(out).k = "frame" -> "\n" \o Head(out).s \o Written(Tail(out))

\* fmt prints an error operand of %s, %v or %w (which it hands on as %v)
\* through its Format method when it has one, and through Error otherwise.
FmtArg(e, verb) ==
    IF Implements(e, {"Format"})
    THEN Written(NodeFormat(e, IF verb = "w" THEN "v" ELSE verb, FALSE))
    ELSE ErrorText(e)

\* The text fmt makes of the pieces of format from the p-th on, the operands
\* from the i-th on still unused.
RECURSIVE Render(_, _, _, _)
Render(format, a, p, i) ==
    IF p > Len(format) THEN ""
    ELSE IF format[p] \notin {"%s", "%w"} THEN format[p] \o Render(format, a, p + 1, i)
    ELSE IF i > Len(a)
         THEN (IF format[p] = "%s" THEN "%!s(MISSING)" ELSE "%!w(MISSING)")
              \o Render(format, a, p + 1, i)
    ELSE (CASE a[i].t = "str" /\ format[p] = "%s" -> a[i].v
            [] a[i].t = "str" /\ format[p] = "%w" -> "%!w(string=" \o a[i].v \o ")"
            [] a[i].t = "err" -> FmtArg(a[i].v, IF format[p] = "%s" THEN "s" ELSE "w"))
         \o Render(format, a, p + 1, i + 1)

\* fmt.Sprintf(format, args...)
Sprintf(format, a) == Render(format, a, 1, 1)

\* The operand of the %w verb of a format, Nil when there is none.
RECURSIVE WrappedOperand(_, _, _, _)
WrappedOperand(format, a, p, i) ==
    IF p > Len(format) \/ i > Len(a) THEN Nil
    ELSE IF format[p] \notin {"%s", "%w"} THEN WrappedOperand(format, a, p + 1, i)
    ELSE IF format[p] = "%w" /\ a[i].t = "err" THEN a[i].v
    ELSE WrappedOperand(format, a, p + 1, i + 1)

\* fmt.Errorf(format, args...): a *wrapError around the %w operand, a plain
\* error when the format wraps nothing.
fmtErrorf(format, a, alloc) ==
    LET w == WrappedOperand(format, a, 1, 1)
        text == Render(format, a, 1, 1)
    IN  IF w = Nil
        THEN [val |-> <<errorString(alloc + 1, text)>>, alloc |-> alloc + 1]
        ELSE [val |-> <<wrapError(alloc + 1, text)>> \o w, alloc |-> alloc + 1]

(***************************************************************************)
(* The package's functions.  Each takes the allocation count and the call  *)
(* stack above it, and returns its value, the new allocation count and the *)
(* stacks it captured.                                                     *)
(***************************************************************************)
Ret(v, alloc, cap) == [val |-> v, alloc |-> alloc, cap |-> cap]

New(message, alloc, stk) ==
    LET st == callers(0, stk)
    IN  Ret(<<formatted, withStack(alloc + 2, st), errorString(alloc + 1, message)>>,
            alloc + 2, <<st>>)

Errorf(call, alloc, stk) ==
    LET w == fmtErrorf(call.format, call.a, alloc)
        st == callers(0, stk)
    IN  Ret(<<formatted, withStack(w.alloc + 1, st)>> \o w.val, w.alloc + 1, <<st>>)

\* ensureStack without its nil check.
ensureStackNoNil(e, alloc, stk) ==
    IF As(e, stackTracer).ok THEN Ret(<<formatted>> \o e, alloc, <<>>)
    ELSE LET st == callers(1, stk)
         IN  Ret(<<formatted, withStack(alloc + 1, st)>> \o e, alloc + 1, <<st>>)

\* ensureStack without its look for a stack already there.
ensureStackAlways(e, alloc, stk) ==
    IF e = Nil THEN Ret(Nil, alloc, <<>>)
    ELSE LET st == callers(1, stk)
         IN  Ret(<<formatted, withStack(alloc + 1, st)>> \o e, alloc + 1, <<st>>)

\* stk is the stack above ensureStack: the exported function that called it
\* and the application's frames.
ensureStack(e, alloc, stk) ==
    IF e = Nil THEN Ret(Nil, alloc, <<>>)
    ELSE IF As(e, stackTracer).ok THEN Ret(<<formatted>> \o e, alloc, <<>>)
    ELSE LET st == callers(1, stk)
         IN  Ret(<<formatted, withStack(alloc + 1, st)>> \o e, alloc + 1, <<st>>)

WithStack(e, alloc, stk) == ensureStack(e, alloc, <<"errors.WithStack">> \o stk)

EnsureStack(e, alloc, stk) == ensureStack(e, alloc, <<"errors.EnsureStack">> \o stk)

\* Wrap with the operands of its format the other way round.
WrapCauseFirst(e, message, alloc, stk) ==
    IF e = Nil THEN Ret(Nil, alloc, <<>>)
    ELSE LET es == ensureStack(e, alloc, <<"errors.Wrap">> \o stk)
             w == fmtErrorf(<<"%w", ": ", "%s">>, <<E(es.val), S(message)>>, es.alloc)
         IN  Ret(<<formatted>> \o w.val, w.alloc, es.cap)

Wrap(e, message, alloc, stk) ==
    IF e = Nil THEN Ret(Nil, alloc, <<>>)
    ELSE LET es == ensureStack(e, alloc, <<"errors.Wrap">> \o stk)
             w == fmtErrorf(<<"%s", ": ", "%w">>, <<S(message), E(es.val)>>, es.alloc)
         IN  Ret(<<formatted>> \o w.val, w.alloc, es.cap)

Wrapf(e, call, alloc, stk) ==
    IF e = Nil THEN Ret(Nil, alloc, <<>>)
    ELSE LET es == ensureStack(e, alloc, <<"errors.Wrapf">> \o stk)
             w == fmtErrorf(<<"%s", ": ", "%w">>,
                            <<S(Sprintf(call.format, call.a)), E(es.val)>>, es.alloc)
         IN  Ret(<<formatted>> \o w.val, w.alloc, es.cap)

WithMessage(e, message, alloc) ==
    IF e = Nil THEN Ret(Nil, alloc, <<>>)
    ELSE LET w == fmtErrorf(<<"%s", ": ", "%w">>, <<S(message), E(e)>>, alloc)
         IN  Ret(w.val, w.alloc, <<>>)

WithMessagef(e, call, alloc) ==
    IF e = Nil THEN Ret(Nil, alloc, <<>>)
    ELSE LET w == fmtErrorf(<<"%s", ": ", "%w">>,
                            <<S(Sprintf(call.format, call.a)), E(e)>>, alloc)
         IN  Ret(w.val, w.alloc, <<>>)

\* The loop as it would be if it looked for no stack and unwrapped to the end.
CauseIterToLeaf(e) ==
    IF Unwrap(e) = Nil THEN [done |-> TRUE, val |-> e]
    ELSE [done |-> FALSE, val |-> Unwrap(e)]

\* The loop as it would be if it returned err instead of unwrapping it.
CauseIterNoUnwrap(e) ==
    LET st == As(e, stackTracer)
    IN  IF st.ok THEN [done |-> TRUE, val |-> st.val]
        ELSE [done |-> TRUE, val |-> e]

\* One turn of Cause's loop on err: return (done) or go on with Unwrap(err).
CauseIter(e) ==
    LET st == As(e, stackTracer)
    IN  IF st.ok THEN [done |-> TRUE, val |-> st.val]
        ELSE IF Unwrap(e) = Nil THEN [done |-> TRUE, val |-> e]
        ELSE [done |-> FALSE, val |-> Unwrap(e)]

\* Cause(err): the loop run to its return.
RECURSIVE Cause(_)
Cause(e) == IF CauseIter(e).done THEN CauseIter(e).val ELSE Cause(CauseIter(e).val)

(***************************************************************************)
(* The state machine: a caller holds an error (err), applies the package's *)
(* functions to it one after the other, and asks for its cause.            *)
(*   prev   the error the last function was applied to                     *)
(*   orig   the error the chain was started from; born says by whom, and   *)
(*          with which text                                                *)
(*   hist   the annotations applied on top of orig: function and message   *)
(*   caps   the stacks captured since orig was made, and by which of them  *)
(*   walk   the position of a running Cause call                           *)
(***************************************************************************)
Idle == [pc |-> "idle", cur |-> Nil, ret |-> Nil, n |-> 0]

Captured(cap, at) == [i \in 1..Len(cap) |-> [stack |-> cap[i], at |-> at]]

Init ==
    /\ err \in {Nil} \cup {<<errorString(1, t)>> : t \in LeafTexts}
    /\ prev = Nil
    /\ orig = err
    /\ born = [by |-> "caller", msg |-> ErrorText(err)]
    /\ hist = <<>>
    /\ caps = <<>>
    /\ nalloc = Len(err)
    /\ nops = 0
    /\ walk = Idle

\* A creating function starts a chain.
Create(op, msg, r) ==
    /\ nops < MaxOps
    /\ walk.pc # "loop"
    /\ err' = r.val
    /\ prev' = err
    /\ orig' = r.val
    /\ born' = [by |-> op, msg |-> msg]
    /\ hist' = <<>>
    /\ caps' = Captured(r.cap, 0)
    /\ nalloc' = r.alloc
    /\ nops' = nops + 1
    /\ walk' = Idle

\* An annotating function is applied to err.
Annotate(op, msg, r) ==
    /\ nops < MaxOps
    /\ walk.pc # "loop"
    /\ err' = r.val
    /\ prev' = err
    /\ hist' = Append(hist, [op |-> op, msg |-> msg])
    /\ caps' = caps \o Captured(r.cap, Len(hist) + 1)
    /\ nalloc' = r.alloc
    /\ nops' = nops + 1
    /\ walk' = Idle
    /\ UNCHANGED <<orig, born>>

DoNew ==
    \E m \in Messages, stk \in CallStacks : Create("New", m, New(m, nalloc, stk))

DoErrorf ==
    \E c \in ErrorfCalls(err), stk \in CallStacks :
        Create("Errorf", Sprintf(c.format, c.a), Errorf(c, nalloc, stk))

DoWithStack ==
    \E stk \in CallStacks : Annotate("WithStack", "", WithStack(err, nalloc, stk))

DoEnsureStack ==
    \E stk \in CallStacks : Annotate("EnsureStack", "", EnsureStack(err, nalloc, stk))

DoWrap ==
    \E m \in Messages, stk \in CallStacks :
        Annotate("Wrap", m, Wrap(err, m, nalloc, stk))

DoWrapf ==
    \E c \in FmtCalls, stk \in CallStacks :
        Annotate("Wrapf", Sprintf(c.format, c.a), Wrapf(err, c, nalloc, stk))

DoWithMessage ==
    \E m \in Messages : Annotate("WithMessage", m, WithMessage(err, m, nalloc))

DoWithMessagef ==
    \E c \in FmtCalls :
        Annotate("WithMessagef", Sprintf(c.format, c.a), WithMessagef(err, c, nalloc))

\* Cause(err) is called.
CauseCall ==
    /\ walk.pc # "loop"
    /\ walk' = [pc |-> "loop", cur |-> err, ret |-> Nil, n |-> 0]
    /\ UNCHANGED <<err, prev, orig, born, hist, caps, nalloc, nops>>

\* One turn of its loop.
CauseStep ==
    /\ walk.pc = "loop"
    /\ LET r == CauseIter(walk.cur)
       IN  walk' = IF r.done
                   THEN [pc |-> "done", cur |-> walk.cur, ret |-> r.val, n |-> walk.n + 1]
                   ELSE [pc |-> "loop", cur |-> r.val, ret |-> Nil, n |-> walk.n + 1]
    /\ UNCHANGED <<err, prev, orig, born, hist, caps, nalloc, nops>>

Next ==
    \/ DoNew
    \/ DoErrorf
    \/ DoWithStack
    \/ DoEnsureStack
    \/ DoWrap
    \/ DoWrapf
    \/ DoWithMessage
    \/ DoWithMessagef
    \/ CauseCall
    \/ CauseStep

Spec == Init /\ [][Next]_vars

(***************************************************************************)
(* Properties                                                              *)
(***************************************************************************)
AnnotOps == {"WithStack", "EnsureStack", "Wrap", "Wrapf", "WithMessage", "WithMessagef"}
ForcingOps == {"WithStack", "EnsureStack", "Wrap", "Wrapf"}
MessageOps == {"Wrap", "Wrapf", "WithMessage", "WithMessagef"}

\* The function that returned err ("caller" when the package has not acted).
LastOp == IF hist = <<>> THEN born.by ELSE hist[Len(hist)].op

\* The places of the stack-bearing nodes in a chain.
StackNodes(e) == {i \in 1..Len(e) : e[i].kind = "withStack"}

\* The first annotation that forces a stack, 0 when the chain was created
\* with one, -1 when no stack was asked for yet.
FirstForcing ==
    IF born.by # "caller" THEN 0
    ELSE IF \E i \in 1..Len(hist) : hist[i].op \in ForcingOps
    THEN CHOOSE i \in 1..Len(hist) :
             /\ hist[i].op \in ForcingOps
             /\ \A j \in 1..(i - 1) : hist[j].op \notin ForcingOps
    ELSE -1

\* The messages of the first n annotations, the outermost first, each
\* followed by colon and space.
RECURSIVE Joined(_, _)
Joined(h, n) ==
    IF n = 0 THEN ""
    ELSE (IF h[n].op \in MessageOps THEN h[n].msg \o ": " ELSE "") \o Joined(h, n - 1)

\* C1: every annotating function applied to the nil error returns nil,
\* allocates no node and captures no stack.
C1_AbsentIdentity ==
    [][(err = Nil /\ Len(hist') = Len(hist) + 1)
         => (err' = Nil /\ nalloc' = nalloc /\ caps' = caps)]_vars

C1_Witness ==
    /\ Len(hist) = 3
    /\ {hist[i].op : i \in 1..3} = {"Wrapf", "WithMessage", "EnsureStack"}
    /\ prev = Nil
    /\ err = Nil

ErrorfOperandStackless == StackNodes(SubSeq(orig, 3, Len(orig))) = {}

C4_CauseRecoversLeaf ==
    (born.by = "caller" /\ orig # Nil) => Cause(err) = orig

C6_DirectStackTracer ==
    (err # Nil /\ LastOp \in {"New", "Errorf", "Wrap", "Wrapf"})
        => Implements(err, stackTracer)

\* C7: what any function of the package returns has the Format method.
C7_AlwaysFormatter ==
    (err # Nil /\ LastOp # "caller") => Implements(err, {"Format"})

\* C8: EnsureStack and WithStack return an error that already carries a
\* stack as it is.
C8_EnsureStackReturnsAsIs ==
    (LastOp \in {"EnsureStack", "WithStack"} /\ StackNodes(prev) # {})
        => err = prev

\* What Cause is to return: the chain from its first stack-bearing node on,
\* the last node when there is none.
CauseExpected(e) ==
    IF StackNodes(e) # {}
    THEN SubSeq(e, CHOOSE i \in StackNodes(e) : \A j \in StackNodes(e) : i <= j, Len(e))
    ELSE SubSeq(e, Len(e), Len(e))

C10_DualMode ==
    (err # Nil /\ LastOp \in {"New", "Errorf", "Wrap", "Wrapf", "EnsureStack", "WithStack"}) =>
        LET t == Joined(hist, Len(hist)) \o born.msg
            st == caps[1].stack
        IN  /\ Implements(err, {"Format"})
            /\ Format(err, "s", FALSE) = <<Text(t)>>
            /\ Format(err, "v", FALSE) = <<Text(t)>>
            /\ Format(err, "v", TRUE) = <<Text(t)>> \o [i \in 1..Len(st) |-> FrameLine(st[i])]

C10_Witness ==
    /\ born = [by |-> "New", msg |-> "disk full"]
    /\ Len(hist) = 2
    /\ hist[1].op = "Wrap"
    /\ hist[2].op = "Wrap"
    /\ Format(err, "v", TRUE) =
          <<Text("startup failed: read config: disk full"),
            FrameLine("cfg.Load"), FrameLine("main.main")>>

====
